---------------------------- MODULE Spec2Model ----------------------------
(***************************************************************************)
(* A model of vm/src/pyobject.rs: Python objects (PyObject), the shared    *)
(* references to them (PyObjectRef = Rc<RefCell<PyObject>>), the context   *)
(* factories, the iterator protocol (nxt), the arithmetic operators        *)
(* (Add, Sub, Mul, Div), equality, ordering and rendering (str).           *)
(*                                                                         *)
(* The heap is a sequence of objects; a reference is an index into it.     *)
(* A panic ends the process: once an operation has panicked no further     *)
(* operation runs.                                                         *)
(***************************************************************************)
EXTENDS Integers, Sequences, FiniteSets, TLC

VARIABLES
    heap,      \* the objects allocated so far; PyObjectRef r denotes heap[r]
    ctx,       \* the PyContext: its canonical type references
    operands,  \* the references the operations under study are called with
    result,    \* the last operation and its outcome
    history,   \* the outcomes of the nxt calls made so far, in order
    mutated    \* whether a list was mutated through an alias since Init

vars == <<heap, ctx, operands, result, history, mutated>>

----------------------------------------------------------------------------
(* Bounds of the model.                                                    *)

\* most objects the factories allocate after the context's own
MaxObjs == 3
\* longest list of the iterator specification
MaxLen == 3
\* most nxt calls of the iterator specification
MaxCalls == 4
\* longest drawn list of the operator specification
MaxElems == 2
\* largest repeat count of String * Integer
MaxRepeat == 4

----------------------------------------------------------------------------
(* 32-bit signed integers (the value of PyObjectKind::Integer is an i32).  *)

I32_MAX == 2147483647
I32_MIN == (-I32_MAX) - 1

----------------------------------------------------------------------------
(* Outcomes of an operation.                                               *)

\* Option<T>
Some(x) == [tag |-> "Some", val |-> x]
OptNone == [tag |-> "None"]

\* the operation returned v
Return(v) == [tag |-> "Return", value |-> v]
\* the operation panicked: the process is terminated
Panic(msg) == [tag |-> "Panic", msg |-> msg]
\* PyResult's Err channel: a failure handed back to the caller
Err(e) == [tag |-> "Err", error |-> e]
\* no operation has run yet
Idle == [op |-> "none", out |-> [tag |-> "Idle"]]

Running == result.out.tag # "Panic"

----------------------------------------------------------------------------
(* PyObjectKind.                                                           *)

String(value) == [tag |-> "String", value |-> value]
Integer(value) == [tag |-> "Integer", value |-> value]
Boolean(value) == [tag |-> "Boolean", value |-> value]
List(elements) == [tag |-> "List", elements |-> elements]
Tuple(elements) == [tag |-> "Tuple", elements |-> elements]
Dict(elements) == [tag |-> "Dict", elements |-> elements]
Iterator(position, iterated_obj) ==
    [tag |-> "Iterator", position |-> position, iterated_obj |-> iterated_obj]
Slice(start, stop, step) ==
    [tag |-> "Slice", start |-> start, stop |-> stop, step |-> step]
NameError(name) == [tag |-> "NameError", name |-> name]
Code == [tag |-> "Code", code |-> "CodeObject"]
Function == [tag |-> "Function", code |-> "CodeObject"]
Module(name) == [tag |-> "Module", name |-> name]
None == [tag |-> "None"]
Class(name) == [tag |-> "Class", name |-> name]
RustFunction == [tag |-> "RustFunction", function |-> "RustPyFunc"]

----------------------------------------------------------------------------
(* PyObject and PyContext.                                                 *)

\* PyObject::new: the kind, the type link, an empty __dict__
PyObject_new(kind, typ) == [kind |-> kind, typ |-> Some(typ), dict |-> <<>>]

\* into_ref: the object is moved into a fresh reference
into_ref(h, obj) == [heap |-> Append(h, obj), ref |-> Len(h) + 1]

\* objtype::create_type(): the universal type object; it has no type link
objtype_create_type == [kind |-> Class("type"), typ |-> OptNone, dict |-> <<>>]

\* objint::create_type(type_type): the integer type object
objint_create_type(type_type) == PyObject_new(Class("int"), type_type)

\* PyContext::new
PyContext_new ==
    LET t == into_ref(<<>>, objtype_create_type)
        i == into_ref(t.heap, objint_create_type(t.ref))
    IN [heap |-> i.heap, ctx |-> [type_type |-> t.ref, int_type |-> i.ref]]

new_int(c, i) == PyObject_new(Integer(i), c.type_type)
new_str(c, s) == PyObject_new(String(s), c.type_type)
new_bool(c, b) == PyObject_new(Boolean(b), c.type_type)
new_class(c, name) == PyObject_new(Class(name), c.type_type)

----------------------------------------------------------------------------
(* The context specification: the factories allocate objects.              *)

FactoryInts == <<I32_MIN, -1, 0, 5, I32_MAX>>
FactoryStrs == {"", "ab"}
FactoryNames == {"C"}

InitCtx ==
    /\ heap = PyContext_new.heap
    /\ ctx = PyContext_new.ctx
    /\ operands = <<>>
    /\ result = Idle
    /\ history = <<>>
    /\ mutated = FALSE

\* a factory call: the new object is moved into a fresh reference
Allocate(op, obj) ==
    /\ Running
    /\ Len(heap) < Len(PyContext_new.heap) + MaxObjs
    /\ heap' = into_ref(heap, obj).heap
    /\ result' = [op |-> op, out |-> Return(into_ref(heap, obj).ref)]
    /\ UNCHANGED <<ctx, operands, history, mutated>>

NewInt ==
    \E k \in 1..Len(FactoryInts) : Allocate("new_int", new_int(ctx, FactoryInts[k]))
NewStr == \E s \in FactoryStrs : Allocate("new_str", new_str(ctx, s))
NewBool == \E b \in BOOLEAN : Allocate("new_bool", new_bool(ctx, b))
NewClass == \E n \in FactoryNames : Allocate("new_class", new_class(ctx, n))

NextCtx == NewInt \/ NewStr \/ NewBool \/ NewClass

Spec == InitCtx /\ [][NextCtx]_vars

(* C7: for every i, the object returned by new_int(i) has its type link    *)
(* pointing at the context's canonical integer type object (int_type).     *)
C7_NewIntStampedWithIntType ==
    result.op = "new_int" =>
        heap[result.out.value].typ = Some(ctx.int_type)

----------------------------------------------------------------------------
(* The iterator protocol.                                                  *)

\* nxt adding 2 to the position of an element it returns
nxt_skip(h, self) ==
    IF h[self].kind.tag = "Iterator"
    THEN LET position == h[self].kind.position
             iterated_obj == h[h[self].kind.iterated_obj]
         IN IF iterated_obj.kind.tag = "List"
            THEN LET elements == iterated_obj.kind.elements
                 IN IF position < Len(elements)
                    THEN [heap |-> [h EXCEPT ![self].kind.position = position + 2],
                          out |-> Return(Some(elements[position + 1]))]
                    ELSE [heap |-> h, out |-> Return(OptNone)]
            ELSE [heap |-> h, out |-> Panic("NOT IMPL")]
    ELSE [heap |-> h, out |-> Panic("NOT IMPL")]

\* nxt setting the position back to 0 when it signals exhaustion
nxt_rewind(h, self) ==
    IF h[self].kind.tag = "Iterator"
    THEN LET position == h[self].kind.position
             iterated_obj == h[h[self].kind.iterated_obj]
         IN IF iterated_obj.kind.tag = "List"
            THEN LET elements == iterated_obj.kind.elements
                 IN IF position < Len(elements)
                    THEN [heap |-> [h EXCEPT ![self].kind.position = position + 1],
                          out |-> Return(Some(elements[position + 1]))]
                    ELSE [heap |-> [h EXCEPT ![self].kind.position = 0],
                          out |-> Return(OptNone)]
            ELSE [heap |-> h, out |-> Panic("NOT IMPL")]
    ELSE [heap |-> h, out |-> Panic("NOT IMPL")]

\* PyObject::nxt on the object self of heap h: the heap it leaves, its outcome
nxt(h, self) ==
    IF h[self].kind.tag = "Iterator"
    THEN LET position == h[self].kind.position
             iterated_obj == h[h[self].kind.iterated_obj]
         IN IF iterated_obj.kind.tag = "List"
            THEN LET elements == iterated_obj.kind.elements
                 IN IF position < Len(elements)
                    THEN [heap |-> [h EXCEPT ![self].kind.position = position + 1],
                          out |-> Return(Some(elements[position + 1]))]
                    ELSE [heap |-> h, out |-> Return(OptNone)]
            ELSE [heap |-> h, out |-> Panic("NOT IMPL")]
    ELSE [heap |-> h, out |-> Panic("NOT IMPL")]

\* Vec::push and Vec::remove on a List's elements, through another alias
list_push(h, l, x) == [h EXCEPT ![l].kind.elements = Append(@, x)]
list_remove(h, l, i) ==
    [h EXCEPT ![l].kind.elements = SubSeq(@, 1, i - 1) \o SubSeq(@, i + 1, Len(@))]

----------------------------------------------------------------------------
(* The iterator specification: a list of integers, an iterator over it at  *)
(* position 0, an iterator over an integer; nxt calls interleaved with     *)
(* pushes and removals on the list.                                        *)

IterInts == <<10, 20, 30>>

\* the heap before the list and the iterators: the context's, then the integers
IterBase ==
    PyContext_new.heap \o [k \in 1..Len(IterInts) |-> new_int(PyContext_new.ctx, IterInts[k])]

ElemRef(k) == Len(PyContext_new.heap) + k
ElemRefs == {ElemRef(k) : k \in 1..Len(IterInts)}
ListRef == Len(IterBase) + 1
ItRef == Len(IterBase) + 2
BadItRef == Len(IterBase) + 3

SeqsUpTo(S, n) == UNION {[1..k -> S] : k \in 0..n}

IterHeap(elements) ==
    IterBase \o
    << PyObject_new(List(elements), PyContext_new.ctx.type_type),
       PyObject_new(Iterator(0, ListRef), PyContext_new.ctx.type_type),
       PyObject_new(Iterator(0, ElemRef(1)), PyContext_new.ctx.type_type) >>

InitIter ==
    /\ \E elements \in SeqsUpTo(ElemRefs, MaxLen) : heap = IterHeap(elements)
    /\ ctx = PyContext_new.ctx
    /\ operands \in {<<ItRef>>, <<BadItRef>>, <<ListRef>>}
    /\ result = Idle
    /\ history = <<>>
    /\ mutated = FALSE

\* it.borrow_mut().nxt()
Nxt ==
    /\ Running
    /\ Len(history) < MaxCalls
    /\ heap' = nxt(heap, operands[1]).heap
    /\ result' = [op |-> "nxt", out |-> nxt(heap, operands[1]).out]
    /\ history' = Append(history, nxt(heap, operands[1]).out)
    /\ UNCHANGED <<ctx, operands, mutated>>

\* the list grows through another alias
ListPush ==
    /\ Running
    /\ Len(heap[ListRef].kind.elements) < MaxLen
    /\ \E x \in ElemRefs : heap' = list_push(heap, ListRef, x)
    /\ result' = [op |-> "push", out |-> Return(OptNone)]
    /\ mutated' = TRUE
    /\ UNCHANGED <<ctx, operands, history>>

\* the list shrinks through another alias
ListRemove ==
    /\ Running
    /\ \E i \in 1..Len(heap[ListRef].kind.elements) :
           heap' = list_remove(heap, ListRef, i)
    /\ result' = [op |-> "remove", out |-> Return(OptNone)]
    /\ mutated' = TRUE
    /\ UNCHANGED <<ctx, operands, history>>

NextIter == Nxt \/ ListPush \/ ListRemove

SpecIter == InitIter /\ [][NextIter]_vars

\* the state of the iterator ItRef and of its target
position == heap[ItRef].kind.position
elements == heap[ListRef].kind.elements
OnIterator == operands = <<ItRef>>
Exhaustion == Return(OptNone)
Yield(k) == Return(Some(elements[k]))

(* C1: over a list of n elements that is not mutated, starting at position *)
(* 0, the k-th nxt call (1 <= k <= n) returns the element at index k-1 and *)
(* every later call signals exhaustion; for n = 0 the first call does.     *)
C1_InOrderThenExhausted ==
    (OnIterator /\ ~mutated) =>
        /\ \A k \in 1..Len(history) :
               history[k] = IF k <= Len(elements) THEN Yield(k) ELSE Exhaustion
        /\ position = IF Len(history) <= Len(elements)
                      THEN Len(history) ELSE Len(elements)

C1_Witness ==
    /\ OnIterator /\ ~mutated
    /\ elements = <<ElemRef(1), ElemRef(2), ElemRef(3)>>
    /\ Len(history) = 4
    /\ history[3] = Return(Some(ElemRef(3)))
    /\ history[4] = Exhaustion

(* C2: once a nxt call has signalled exhaustion, every later nxt call on   *)
(* the iterator also signals exhaustion and changes neither the position   *)
(* nor the target, whatever pushes or removals happen in between.          *)
Exhausted == \E k \in 1..Len(history) : history[k] = Exhaustion
NxtStep == Len(history') = Len(history) + 1
C2_ExhaustionTerminal ==
    [][(OnIterator /\ Exhausted /\ NxtStep) =>
           (result'.out = Exhaustion /\ heap' = heap)]_vars

(* C3: the position never decreases; a nxt call compares the position with *)
(* the list's length at the time of the call: below it, the call returns   *)
(* the element now at index position and adds exactly 1 to the position;   *)
(* otherwise it signals exhaustion and leaves the position unchanged.      *)
C3_PositionMonotoneLiveLength ==
    [][/\ position' >= position
       /\ (OnIterator /\ NxtStep) =>
              IF position < Len(elements)
              THEN result'.out = Yield(position + 1) /\ position' = position + 1
              ELSE result'.out = Exhaustion /\ position' = position]_vars

C3_Witness ==
    /\ OnIterator /\ mutated
    /\ result.op = "nxt"
    /\ result.out.value.tag = "Some"
    /\ Exhausted
    /\ position = 2

----------------------------------------------------------------------------
(* i32 arithmetic.  An overflowing +, - or * panics in a build with        *)
(* overflow checks and wraps around in a build without them; / panics on   *)
(* a zero divisor and on I32_MIN / -1 in every build.                      *)

add_overflows(a, b) ==
    \/ b > 0 /\ a > I32_MAX - b
    \/ b < 0 /\ a < I32_MIN - b

sub_overflows(a, b) ==
    \/ b < 0 /\ a > I32_MAX + b
    \/ b > 0 /\ a < I32_MIN + b

\* a + b modulo 2^32, as a signed value
wrapping_add(a, b) ==
    IF b > 0 /\ a > I32_MAX - b
    THEN ((a - I32_MAX) - 1) + ((b - I32_MAX) - 1)
    ELSE IF b < 0 /\ a < I32_MIN - b
         THEN ((a + I32_MAX) + 1) + ((b + I32_MAX) + 1)
         ELSE a + b

wrapping_neg(a) == IF a = I32_MIN THEN I32_MIN ELSE -a

wrapping_sub(a, b) ==
    IF b = I32_MIN
    THEN wrapping_add(wrapping_add(a, I32_MAX), 1)
    ELSE wrapping_add(a, -b)

\* the product of two 16-bit halves x, y in 0..65535, as its own two halves
mul16(x, y) ==
    LET t == (x \div 256) * y
        s == (t % 256) * 256 + (x % 256) * y
    IN [hi |-> (t \div 256) + (s \div 65536), lo |-> s % 65536]

\* a * b modulo 2^32, as a signed value, from the 16-bit halves of a and b
wrapping_mul(a, b) ==
    LET ah == (a \div 65536) % 65536
        al == a % 65536
        bh == (b \div 65536) % 65536
        bl == b % 65536
        low == mul16(al, bl)
        hi == (low.hi + mul16(ah, bl).lo + mul16(al, bh).lo) % 65536
    IN (IF hi >= 32768 THEN hi - 65536 ELSE hi) * 65536 + low.lo

\* a / b truncated toward zero, for b # 0 and not I32_MIN / -1
i32_div(a, b) ==
    IF b = I32_MIN THEN (IF a = I32_MIN THEN 1 ELSE 0)
    ELSE LET q == a \div b
             m == IF b < 0 THEN -b ELSE b
         IN IF a % m # 0 /\ ((a < 0) # (b < 0)) THEN q + 1 ELSE q

mul_overflows(a, b) ==
    IF a = 0 \/ b = 0 THEN FALSE
    ELSE IF a = -1 THEN b = I32_MIN
    ELSE IF b = -1 THEN a = I32_MIN
    ELSE i32_div(wrapping_mul(a, b), a) # b

----------------------------------------------------------------------------
(* The operators: each reads the two objects and yields a PyObjectKind.    *)
(* They are given as the set of outcomes the builds can produce.           *)

\* impl Add for &PyObject
add(self, rhs) ==
    IF self.kind.tag = "Integer" THEN
        IF rhs.kind.tag = "Integer"
        THEN LET value1 == self.kind.value
                 value2 == rhs.kind.value
             IN IF add_overflows(value1, value2)
                THEN {Panic("attempt to add with overflow"),
                      Return(Integer(wrapping_add(value1, value2)))}
                ELSE {Return(Integer(value1 + value2))}
        ELSE {Panic("NOT IMPL")}
    ELSE IF self.kind.tag = "String" THEN
        IF rhs.kind.tag = "String"
        THEN {Return(String(self.kind.value \o rhs.kind.value))}
        ELSE {Panic("NOT IMPL")}
    ELSE IF self.kind.tag = "List" THEN
        IF rhs.kind.tag = "List"
        THEN {Return(List(self.kind.elements \o rhs.kind.elements))}
        ELSE {Panic("NOT IMPL")}
    ELSE {Panic("NOT IMPL")}

\* impl Sub for &PyObject
sub(self, rhs) ==
    IF self.kind.tag = "Integer" THEN
        IF rhs.kind.tag = "Integer"
        THEN LET value1 == self.kind.value
                 value2 == rhs.kind.value
             IN IF sub_overflows(value1, value2)
                THEN {Panic("attempt to subtract with overflow"),
                      Return(Integer(wrapping_sub(value1, value2)))}
                ELSE {Return(Integer(value1 - value2))}
        ELSE {Panic("NOT IMPL")}
    ELSE {Panic("NOT IMPL")}

\* for _x in 0..value2 { result.push_str(value1) }
RECURSIVE push_str_loop(_, _, _, _)
push_str_loop(acc, value1, x, value2) ==
    IF x < value2
    THEN push_str_loop(acc \o value1, value1, x + 1, value2)
    ELSE acc

\* for _x in 0..=value2: one round too many
RECURSIVE push_str_loop_inclusive(_, _, _, _)
push_str_loop_inclusive(acc, value1, x, value2) ==
    IF x <= value2
    THEN push_str_loop_inclusive(acc \o value1, value1, x + 1, value2)
    ELSE acc

\* mul with that loop
mul_inclusive(self, rhs) ==
    IF self.kind.tag = "Integer" THEN
        IF rhs.kind.tag = "Integer"
        THEN LET value1 == self.kind.value
                 value2 == rhs.kind.value
             IN IF mul_overflows(value1, value2)
                THEN {Panic("attempt to multiply with overflow"),
                      Return(Integer(wrapping_mul(value1, value2)))}
                ELSE {Return(Integer(value1 * value2))}
        ELSE {Panic("NOT IMPL")}
    ELSE IF self.kind.tag = "String" THEN
        IF rhs.kind.tag = "Integer"
        THEN {Return(String(push_str_loop_inclusive("", self.kind.value, 0, rhs.kind.value)))}
        ELSE {Panic("NOT IMPL")}
    ELSE {Panic("NOT IMPL")}

\* impl Mul for &PyObject
mul(self, rhs) ==
    IF self.kind.tag = "Integer" THEN
        IF rhs.kind.tag = "Integer"
        THEN LET value1 == self.kind.value
                 value2 == rhs.kind.value
             IN IF mul_overflows(value1, value2)
                THEN {Panic("attempt to multiply with overflow"),
                      Return(Integer(wrapping_mul(value1, value2)))}
                ELSE {Return(Integer(value1 * value2))}
        ELSE {Panic("NOT IMPL")}
    ELSE IF self.kind.tag = "String" THEN
        IF rhs.kind.tag = "Integer"
        THEN {Return(String(push_str_loop("", self.kind.value, 0, rhs.kind.value)))}
        ELSE {Panic("NOT IMPL")}
    ELSE {Panic("NOT IMPL")}

\* impl Div for &PyObject
div(self, rhs) ==
    IF self.kind.tag = "Integer" /\ rhs.kind.tag = "Integer"
    THEN LET value1 == self.kind.value
             value2 == rhs.kind.value
         IN IF value2 = 0 THEN {Panic("attempt to divide by zero")}
            ELSE IF value1 = I32_MIN /\ value2 = -1
                 THEN {Panic("attempt to divide with overflow")}
                 ELSE {Return(Integer(i32_div(value1, value2)))}
    ELSE {Panic("NOT IMPL")}

\* impl Ord for PyObject
cmp(self, other) ==
    IF self.kind.tag = "Integer" /\ other.kind.tag = "Integer"
    THEN Return(IF self.kind.value < other.kind.value THEN "Less"
                ELSE IF self.kind.value = other.kind.value THEN "Equal"
                ELSE "Greater")
    ELSE Panic("Not impl")

\* impl PartialOrd for PyObject
partial_cmp(self, other) ==
    IF cmp(self, other).tag = "Return"
    THEN Return(Some(cmp(self, other).value))
    ELSE cmp(self, other)

----------------------------------------------------------------------------
(* Equality: impl PartialEq for PyObject.  The elements of two lists are   *)
(* references.  PyObject is Eq, so comparing two references first tests    *)
(* whether they are the same reference and only otherwise compares the     *)
(* objects behind them.                                                    *)

RECURSIVE eq(_, _, _)

\* elem.0 == elem.1 on two PyObjectRef: Rc::ptr_eq(a, b) || **a == **b
rc_eq(h, a, b) == IF a = b THEN Return(TRUE) ELSE eq(h, a, b)

\* Iterator::zip(l1, l2).all(|elem| elem.0 == elem.1), from index i on:
\* stops at the first pair that is not equal
RECURSIVE zip_all(_, _, _, _)
zip_all(h, l1, l2, i) ==
    IF i > Len(l1) \/ i > Len(l2) THEN Return(TRUE)
    ELSE LET e == rc_eq(h, l1[i], l2[i])
         IN IF e.tag = "Panic" THEN e
            ELSE IF e.value THEN zip_all(h, l1, l2, i + 1)
            ELSE Return(FALSE)

type_error == Panic("TypeError in COMPARE_OP: can't compare")

\* the length test dropped: zip stops at the shorter list
eq_no_length_test(h, self, other) ==
    LET k1 == h[self].kind
        k2 == h[other].kind
    IN IF k1.tag = "Integer" /\ k2.tag = "Integer" THEN Return(k2.value = k1.value)
       ELSE IF k1.tag = "String" /\ k2.tag = "String" THEN Return(k2.value = k1.value)
       ELSE IF k1.tag = "List" /\ k2.tag = "List"
            THEN zip_all(h, k1.elements, k2.elements, 1)
       ELSE type_error

eq(h, self, other) ==
    LET k1 == h[self].kind
        k2 == h[other].kind
    IN IF k1.tag = "Integer" /\ k2.tag = "Integer" THEN Return(k2.value = k1.value)
       ELSE IF k1.tag = "String" /\ k2.tag = "String" THEN Return(k2.value = k1.value)
       ELSE IF k1.tag = "List" /\ k2.tag = "List"
            THEN IF Len(k1.elements) = Len(k2.elements)
                 THEN zip_all(h, k1.elements, k2.elements, 1)
                 ELSE Return(FALSE)
       ELSE type_error

----------------------------------------------------------------------------
(* Rendering: PyObject::str.                                               *)

Digit(d) == <<"0", "1", "2", "3", "4", "5", "6", "7", "8", "9">>[d + 1]

\* the decimal digits of -n, for n <= 0
RECURSIVE fmt_digits(_)
fmt_digits(n) ==
    IF n > -10 THEN Digit(-n)
    ELSE LET q == i32_div(n, 10)
         IN fmt_digits(q) \o Digit(-(n - q * 10))

\* format!("{:?}", value) of an i32, a bool, an Option<i32>; "{}" of a usize
fmt_i32(i) == IF i < 0 THEN "-" \o fmt_digits(i) ELSE fmt_digits(-i)
fmt_bool(b) == IF b THEN "true" ELSE "false"
fmt_option_i32(o) ==
    IF o.tag = "None" THEN "None" ELSE "Some(" \o fmt_i32(o.val) \o ")"
fmt_usize(n) == fmt_digits(-n)

\* [String]::join
RECURSIVE join(_, _)
join(strs, sep) ==
    IF Len(strs) = 0 THEN ""
    ELSE IF Len(strs) = 1 THEN strs[1]
    ELSE strs[1] \o sep \o join(Tail(strs), sep)

RECURSIVE str(_, _)

\* elements.iter().map(|elem| elem.borrow_mut().str()).collect(), from i on
RECURSIVE str_elements(_, _, _)
str_elements(h, elems, i) ==
    IF i > Len(elems) THEN Return(<<>>)
    ELSE LET s == str(h, elems[i])
         IN IF s.tag = "Panic" THEN s
            ELSE LET rest == str_elements(h, elems, i + 1)
                 IN IF rest.tag = "Panic" THEN rest
                    ELSE Return(<<s.value>> \o rest.value)

str(h, self) ==
    LET k == h[self].kind
    IN CASE k.tag = "String" -> Return(k.value)
         [] k.tag = "Integer" -> Return(fmt_i32(k.value))
         [] k.tag = "Boolean" -> Return(fmt_bool(k.value))
         [] k.tag = "List" ->
                LET parts == str_elements(h, k.elements, 1)
                IN IF parts.tag = "Panic" THEN parts
                   ELSE Return("[" \o join(parts.value, ", ") \o "]")
         [] k.tag = "Tuple" ->
                LET parts == str_elements(h, k.elements, 1)
                IN IF parts.tag = "Panic" THEN parts
                   ELSE Return("{" \o join(parts.value, ", ") \o "}")
         [] k.tag = "None" -> Return("None")
         [] k.tag = "Class" -> Return("<class '" \o k.name \o "'>")
         [] k.tag = "Code" -> Return("<code>")
         [] k.tag = "Function" -> Return("<func>")
         [] k.tag = "RustFunction" -> Return("<rustfunc>")
         [] k.tag = "Module" -> Return("<module '" \o k.name \o "'>")
         [] k.tag = "Slice" ->
                Return("<slice '" \o fmt_option_i32(k.start) \o ":"
                       \o fmt_option_i32(k.stop) \o ":"
                       \o fmt_option_i32(k.step) \o "'>")
         [] k.tag = "Iterator" ->
                LET target == str(h, k.iterated_obj)
                IN IF target.tag = "Panic" THEN target
                   ELSE Return("<iter pos " \o fmt_usize(k.position) \o " in "
                               \o target.value \o ">")
         [] OTHER -> Panic("Not impl")

----------------------------------------------------------------------------
(* The operator specification: a heap holding objects of every kind and    *)
(* two drawn lists; the operators, equality, ordering and str are applied  *)
(* to a drawn pair of references.                                          *)

OpsInts == <<I32_MIN, -7, -1, 0, 1, 1, 2, 3, 4, 5, 7, 12, 33, I32_MAX>>
OpsStrs == <<"", "ab", "ab", "Hello ", "1">>

IntRef(k) == Len(PyContext_new.heap) + k
StrRef(k) == IntRef(Len(OpsInts)) + k
MiscRef(k) == StrRef(Len(OpsStrs)) + k
BoolRef == MiscRef(1)
ClassRef == MiscRef(2)
NoneRef == MiscRef(3)
DictRef == MiscRef(4)
NameErrorRef == MiscRef(5)
CodeRef == MiscRef(6)
FunctionRef == MiscRef(7)
ModuleRef == MiscRef(8)
RustFunctionRef == MiscRef(9)
SliceRef == MiscRef(10)
TupleRef == MiscRef(11)
TupleOfNameErrorRef == MiscRef(12)
IterOverDictRef == MiscRef(13)
L1Ref == MiscRef(14)
L2Ref == MiscRef(15)
N1Ref == MiscRef(16)
N2Ref == MiscRef(17)
IterOverL1Ref == MiscRef(18)

\* the references the drawn lists hold: the integers 1 and 2, the dict
OpsElemRefs == {IntRef(5), IntRef(7), DictRef}

OpsHeap(e1, e2) ==
    LET c == PyContext_new.ctx
        obj(kind) == PyObject_new(kind, c.type_type)
    IN PyContext_new.heap
       \o [k \in 1..Len(OpsInts) |-> new_int(c, OpsInts[k])]
       \o [k \in 1..Len(OpsStrs) |-> new_str(c, OpsStrs[k])]
       \o << new_bool(c, TRUE),
             new_class(c, "C"),
             obj(None),
             obj(Dict([k |-> IntRef(5)])),
             obj(NameError("x")),
             obj(Code),
             obj(Function),
             obj(Module("m")),
             obj(RustFunction),
             obj(Slice(Some(1), OptNone, Some(-1))),
             obj(Tuple(<<IntRef(5), StrRef(2)>>)),
             obj(Tuple(<<NameErrorRef>>)),
             obj(Iterator(0, DictRef)),
             obj(List(e1)),
             obj(List(e2)),
             obj(List(<<L1Ref>>)),
             obj(List(<<L2Ref>>)),
             obj(Iterator(1, L1Ref)) >>

OpsRefs == 1..IterOverL1Ref
\* the operands that reach the drawn lists
ContainerRefs == {L1Ref, L2Ref, N1Ref, N2Ref, IterOverL1Ref}

\* every pair of references over empty drawn lists; every pair of the
\* operands that reach them over the other drawn lists
InitOps ==
    /\ \E e1, e2 \in SeqsUpTo(OpsElemRefs, MaxElems) :
           /\ heap = OpsHeap(e1, e2)
           /\ \E a, b \in OpsRefs :
                  /\ (e1 # <<>> \/ e2 # <<>>) => {a, b} \subseteq ContainerRefs
                  /\ operands = <<a, b>>
    /\ ctx = PyContext_new.ctx
    /\ result = Idle
    /\ history = <<>>
    /\ mutated = FALSE

lhs == heap[operands[1]]
rhs == heap[operands[2]]

\* an operation on the operands: one of its outcomes becomes the result
Apply(op, outcomes) ==
    /\ Running
    /\ \E out \in outcomes : result' = [op |-> op, out |-> out]
    /\ UNCHANGED <<heap, ctx, operands, history, mutated>>

\* &*a.borrow() + &*b.borrow()
Add == Apply("add", add(lhs, rhs))
Sub == Apply("sub", sub(lhs, rhs))
\* the repeat count of String * Integer is bounded by MaxRepeat
Mul ==
    /\ (lhs.kind.tag = "String" /\ rhs.kind.tag = "Integer")
           => rhs.kind.value <= MaxRepeat
    /\ Apply("mul", mul(lhs, rhs))
Div == Apply("div", div(lhs, rhs))
Eq == Apply("eq", {eq(heap, operands[1], operands[2])})
Cmp == Apply("cmp", {cmp(lhs, rhs)})
PartialCmp == Apply("partial_cmp", {partial_cmp(lhs, rhs)})
Str == Apply("str", {str(heap, operands[1])})

NextOps == Add \/ Sub \/ Mul \/ Div \/ Eq \/ Cmp \/ PartialCmp \/ Str

SpecOps == InitOps /\ [][NextOps]_vars

----------------------------------------------------------------------------
(* Properties of the operators.                                            *)

BothIntegers == lhs.kind.tag = "Integer" /\ rhs.kind.tag = "Integer"
BothLists == lhs.kind.tag = "List" /\ rhs.kind.tag = "List"

\* the pairs of kinds equality is defined for
ListedPair ==
    \/ BothIntegers
    \/ lhs.kind.tag = "String" /\ rhs.kind.tag = "String"
    \/ BothLists

(* C4: equality on a pair of kinds other than Integer/Integer,             *)
(* String/String and List/List, at top level or between two elements of    *)
(* compared lists, ends in a TypeError handed back as the error outcome;   *)
(* it never returns false and never terminates the process.                *)
C4_UnlistedEqualityIsTypeError ==
    result.op = "eq" =>
        /\ result.out.tag # "Panic"
        /\ ~ListedPair => result.out = Err("TypeError")

\* the exact sum of a and b is an i32
SumFits(a, b) ==
    \/ b >= 0 /\ a <= I32_MAX - b
    \/ b < 0 /\ a >= I32_MIN - b

(* C5: Integer + Integer returns the exact sum when it fits in an i32 and  *)
(* otherwise yields an OverflowError failure, never a wrapped-around       *)
(* Integer and never a process abort.                                      *)
C5_AddIsCheckedSum ==
    (result.op = "add" /\ BothIntegers) =>
        IF SumFits(lhs.kind.value, rhs.kind.value)
        THEN result.out = Return(Integer(lhs.kind.value + rhs.kind.value))
        ELSE result.out = Err("OverflowError")

\* q is a / b truncated toward zero: the remainder a - q * b is smaller in
\* magnitude than b and is zero or has the sign of a
IsTruncatedQuotient(a, b, q) ==
    LET r == a - q * b
    IN /\ (r = 0 \/ (r > 0) = (a > 0))
       /\ b > 0 => (r < b /\ r > -b)
       /\ b < 0 => (r > b /\ (b = I32_MIN \/ r < -b))

\* the quotient of a by b # 0 is an i32
QuotientFits(a, b) == ~(a = I32_MIN /\ b = -1)

(* C6: Integer / Integer with divisor 0 fails with DivisionByZeroError     *)
(* through the result channel, for every dividend, and never aborts the    *)
(* process; with a non-zero divisor it returns the quotient truncated      *)
(* toward zero.                                                            *)
C6_DivByZeroIsError ==
    (result.op = "div" /\ BothIntegers) =>
        IF rhs.kind.value = 0
        THEN result.out = Err("DivisionByZeroError")
        ELSE QuotientFits(lhs.kind.value, rhs.kind.value) =>
                 /\ result.out.tag = "Return"
                 /\ result.out.value.tag = "Integer"
                 /\ IsTruncatedQuotient(lhs.kind.value, rhs.kind.value,
                                        result.out.value.value)

(* C8: str is defined for every kind: for an object of any of the fifteen  *)
(* kinds, and for containers and iterators holding them, str returns a     *)
(* text and never reaches the process-terminating fallback.                *)
C8_StrIsTotal ==
    result.op = "str" => result.out.tag = "Return"

\* the lists are compared element by element, in order, two elements being
\* equal when they are the same reference or equal objects; lists of
\* different lengths are not equal
ListsComparedElementwise ==
    BothLists =>
        IF Len(lhs.kind.elements) # Len(rhs.kind.elements)
        THEN result.out = Return(FALSE)
        ELSE (result.out = Return(TRUE)) <=>
             \A i \in 1..Len(lhs.kind.elements) :
                 \/ lhs.kind.elements[i] = rhs.kind.elements[i]
                 \/ eq(heap, lhs.kind.elements[i], rhs.kind.elements[i]) = Return(TRUE)

\* equals(a, b) gives the outcome of equals(b, a)
Symmetric == result.out = eq(heap, operands[2], operands[1])

(* C9, as claimed: for all objects a and b of the same kind, equals(a, a)  *)
(* is true and equals(a, b) gives the same outcome as equals(b, a); lists  *)
(* are compared element-wise and in order, and are not equal when their    *)
(* lengths differ.                                                         *)
C9_ReflexiveSymmetricSameKind ==
    (result.op = "eq" /\ lhs.kind.tag = rhs.kind.tag) =>
        /\ operands[1] = operands[2] => result.out = Return(TRUE)
        /\ Symmetric
        /\ ListsComparedElementwise

\* the kinds equality is defined for
Equatable(h, r) == h[r].kind.tag \in {"Integer", "String", "List"}

(* C9, amended: for all objects a and b of the same kind, equals(a, b)     *)
(* gives the same outcome as equals(b, a), and equals(a, a) is true when a *)
(* is an Integer, a String or a List; lists are compared element-wise and  *)
(* in order, and are not equal when their lengths differ.                  *)
C9_ReflexiveOnEquatableSymmetric ==
    (result.op = "eq" /\ lhs.kind.tag = rhs.kind.tag) =>
        /\ (operands[1] = operands[2] /\ Equatable(heap, operands[1]))
               => result.out = Return(TRUE)
        /\ Symmetric
        /\ ListsComparedElementwise

C9_Witness ==
    /\ result.op = "eq"
    /\ operands = <<L1Ref, L2Ref>>
    /\ heap[L1Ref].kind.elements = <<IntRef(5), IntRef(7)>>
    /\ heap[L2Ref].kind.elements = <<IntRef(7), IntRef(5)>>
    /\ result.out = Return(FALSE)
    /\ Symmetric

\* s written n times, the empty string for n <= 0
RECURSIVE Repeated(_, _)
Repeated(s, n) == IF n <= 0 THEN "" ELSE s \o Repeated(s, n - 1)

(* C10: String * Integer returns the left string repeated exactly n times  *)
(* for every n > 0 and the empty string for every n <= 0; both operands    *)
(* are left unchanged.                                                     *)
C10_StrRepeat ==
    [][(result'.op = "mul" /\ lhs.kind.tag = "String" /\ rhs.kind.tag = "Integer") =>
           /\ result'.out = Return(String(Repeated(lhs.kind.value, rhs.kind.value)))
           /\ heap' = heap]_vars

C10_Witness ==
    /\ result.op = "mul"
    /\ lhs.kind = String("Hello ")
    /\ rhs.kind = Integer(4)
    /\ result.out = Return(String("Hello Hello Hello Hello "))

=============================================================================
